---- MODULE Spec2Model ----
(***************************************************************************)
(* Certainty-factor expert system for tomato nutrient deficiencies:        *)
(* the knowledge-base store (app/services/knowledge_base.py) and the CF    *)
(* inference engine (app/services/inference_cf.py).                        *)
(*                                                                         *)
(* Numbers are exact rationals [n, d] in lowest terms.  The general input  *)
(* domains are dyadic (multiples of 1/4 and 1/2), which IEEE doubles       *)
(* represent and combine exactly, so that round(x, 4) of the code and      *)
(* round_ of the model agree; the decimal worked example (0.85, 0.93, ...) *)
(* is one fixed scenario.  NaN and infinities are not in the domains.      *)
(***************************************************************************)
EXTENDS Integers, Sequences, FiniteSets, TLC

(***************************************************************************)
(* Bounds of the model.                                                    *)
(***************************************************************************)
\* Largest number of entries of a generated user observation.
MaxObs == 2
\* Largest number of knowledge-base sections that are defective at once in
\* a generated source document.
MaxDefects == 2
\* Largest number of contributions handed to _combine_multiple_cf at once.
MaxContributions == 3

(***************************************************************************)
(* Exact arithmetic on rationals.                                          *)
(***************************************************************************)
Abs(x) == IF x < 0 THEN -x ELSE x

RECURSIVE GCD(_, _)
GCD(a, b) == IF b = 0 THEN a ELSE GCD(b, a % b)

\* The rational n/d (d > 0) in lowest terms.
Q(n, d) == LET g == GCD(Abs(n), d) IN [n |-> n \div g, d |-> d \div g]

Zero == Q(0, 1)
One == Q(1, 1)

QAdd(a, b) == Q(a.n * b.d + b.n * a.d, a.d * b.d)
QSub(a, b) == Q(a.n * b.d - b.n * a.d, a.d * b.d)
QMul(a, b) == Q(a.n * b.n, a.d * b.d)
QLt(a, b) == a.n * b.d < b.n * a.d
QLe(a, b) == a.n * b.d <= b.n * a.d

\* Python's min(a, b) and max(a, b): the first argument unless the second is
\* strictly smaller (larger).
PyMin(a, b) == IF QLt(b, a) THEN b ELSE a
PyMax(a, b) == IF QLt(a, b) THEN b ELSE a

\* round(x, ndigits) with scale = 10^ndigits: the nearest multiple of
\* 1/scale, a tie going to the even multiple.
round_(x, scale) ==
  LET s == x.n * scale
      fl == s \div x.d
      r == s - fl * x.d
      k == IF 2 * r < x.d THEN fl
           ELSE IF 2 * r > x.d THEN fl + 1
           ELSE IF fl % 2 = 0 THEN fl ELSE fl + 1
  IN Q(k, scale)

round4(x) == round_(x, 10000)

(***************************************************************************)
(* Raw values as they arrive in a JSON document or in a caller's dict:     *)
(* a number, a string that float() parses ("0.5"), or something float()    *)
(* rejects ("abc", None).                                                  *)
(***************************************************************************)
NumV(n, d) == [t |-> "num", n |-> n, d |-> d]
StrV(n, d) == [t |-> "numstr", n |-> n, d |-> d]
BadV == [t |-> "bad", n |-> 0, d |-> 1]

\* float(v) raises ValueError/TypeError
float_raises(v) == v.t = "bad"
\* float(v) where it does not raise
float(v) == Q(v.n, v.d)
\* a Python float, as a raw value
AsFloat(q) == NumV(q.n, q.d)

(***************************************************************************)
(* Knowledge-base documents (the parsed JSON of data/knowledge_base.json). *)
(* A section is absent, not a list, or a list of items; an item is a dict  *)
(* with the keys in `has`, or not a dict.                                  *)
(***************************************************************************)
SymptomKeys == {"code", "name", "category"}
NutrientKeys == {"code", "name", "solusi"}
RuleKeys == {"nutrient", "symptom", "cf"}

List(items) == [t |-> "list", items |-> items]
Absent == [t |-> "absent", items |-> <<>>]
NotList == [t |-> "notlist", items |-> <<>>]

Sym(code) ==
  [dict |-> TRUE, has |-> SymptomKeys, code |-> code, name |-> code,
   category |-> "Daun"]
Nut(code) ==
  [dict |-> TRUE, has |-> NutrientKeys, code |-> code, name |-> code,
   solusi |-> "Pupuk"]
Rule(nutrient, symptom, cf) ==
  [dict |-> TRUE, has |-> RuleKeys, nutrient |-> nutrient,
   symptom |-> symptom, cf |-> cf]
\* an item with key k missing, and an item that is no dict
Without(item, k) == [item EXCEPT !.has = @ \ {k}]
NotDict(item) == [item EXCEPT !.dict = FALSE, !.has = {}]

Doc(symptoms, nutrients, rules) ==
  [symptoms |-> symptoms, nutrients |-> nutrients, rules |-> rules]

\* The knowledge-base file: missing, not JSON, or a JSON document.
EmptyDoc == Doc(List(<<>>), List(<<>>), List(<<>>))
FileMissing == [t |-> "missing", doc |-> EmptyDoc]
FileGarbage == [t |-> "garbage", doc |-> EmptyDoc]
FileJson(doc) == [t |-> "json", doc |-> doc]

\* _kb_cache = None
None == [t |-> "None"]

(***************************************************************************)
(* _validate_knowledge_base_structure: the first failing check, or NoErr.  *)
(* idx is the 0-based index the code names in its message (0 where the     *)
(* message names none), key the key or code it names.                      *)
(***************************************************************************)
Err(check, section, idx, key) ==
  [check |-> check, section |-> section, idx |-> idx, key |-> key]
NoErr == Err("none", "", 0, "")

\* for key in required_keys: key missing, then kb[key] not a list
RECURSIVE ValidateContainers(_, _)
ValidateContainers(kb, required_keys) ==
  IF required_keys = <<>> THEN NoErr
  ELSE LET key == Head(required_keys) IN
    IF kb[key].t = "absent" THEN Err("missing_container", key, 0, key)
    ELSE IF kb[key].t # "list" THEN Err("not_list", key, 0, key)
    ELSE ValidateContainers(kb, Tail(required_keys))

\* for key in required_<x>_keys: if key not in record: raise
RECURSIVE FirstMissingKey(_, _)
FirstMissingKey(item, keys) ==
  IF keys = <<>> THEN ""
  ELSE IF Head(keys) \notin item.has THEN Head(keys)
  ELSE FirstMissingKey(item, Tail(keys))

\* the loop over kb["symptoms"], symptom_codes being the codes seen so far
RECURSIVE ValidateSymptoms(_, _, _)
ValidateSymptoms(items, i, symptom_codes) ==
  IF i > Len(items) THEN [err |-> NoErr, codes |-> symptom_codes]
  ELSE LET symptom == items[i]
           missing == FirstMissingKey(symptom, <<"code", "name", "category">>)
       IN
    IF ~symptom.dict THEN
      [err |-> Err("not_dict", "symptoms", i - 1, ""), codes |-> symptom_codes]
    ELSE IF missing # "" THEN
      [err |-> Err("missing_key", "symptoms", i - 1, missing),
       codes |-> symptom_codes]
    ELSE IF symptom.code \in symptom_codes THEN
      [err |-> Err("duplicate", "symptoms", 0, symptom.code),
       codes |-> symptom_codes]
    ELSE ValidateSymptoms(items, i + 1, symptom_codes \cup {symptom.code})

\* the loop over kb["nutrients"]
RECURSIVE ValidateNutrients(_, _, _)
ValidateNutrients(items, i, nutrient_codes) ==
  IF i > Len(items) THEN [err |-> NoErr, codes |-> nutrient_codes]
  ELSE LET nutrient == items[i]
           missing == FirstMissingKey(nutrient, <<"code", "name", "solusi">>)
       IN
    IF ~nutrient.dict THEN
      [err |-> Err("not_dict", "nutrients", i - 1, ""),
       codes |-> nutrient_codes]
    ELSE IF missing # "" THEN
      [err |-> Err("missing_key", "nutrients", i - 1, missing),
       codes |-> nutrient_codes]
    ELSE IF nutrient.code \in nutrient_codes THEN
      [err |-> Err("duplicate", "nutrients", 0, nutrient.code),
       codes |-> nutrient_codes]
    ELSE ValidateNutrients(items, i + 1, nutrient_codes \cup {nutrient.code})

\* mutant: the range of the CF value is not checked
ValidateRuleCf_NoRange(rule, idx) ==
  IF float_raises(rule.cf) THEN Err("cf_invalid", "rules", idx, "cf")
  ELSE NoErr

\* the CF value of one rule: float() fails, or the value is outside [0, 1]
ValidateRuleCf(rule, idx) ==
  IF float_raises(rule.cf) THEN Err("cf_invalid", "rules", idx, "cf")
  ELSE IF ~(QLe(Zero, float(rule.cf)) /\ QLe(float(rule.cf), One))
    THEN Err("cf_out_of_range", "rules", idx, "cf")
  ELSE NoErr

\* the loop over kb["rules"]
RECURSIVE ValidateRules(_, _, _, _)
ValidateRules(items, i, valid_nutrient_codes, valid_symptom_codes) ==
  IF i > Len(items) THEN NoErr
  ELSE LET rule == items[i]
           missing == FirstMissingKey(rule, <<"nutrient", "symptom", "cf">>)
       IN
    IF ~rule.dict THEN Err("not_dict", "rules", i - 1, "")
    ELSE IF missing # "" THEN Err("missing_key", "rules", i - 1, missing)
    ELSE IF rule.nutrient \notin valid_nutrient_codes
      THEN Err("unknown_nutrient", "rules", i - 1, rule.nutrient)
    ELSE IF rule.symptom \notin valid_symptom_codes
      THEN Err("unknown_symptom", "rules", i - 1, rule.symptom)
    ELSE IF ValidateRuleCf(rule, i - 1) # NoErr THEN ValidateRuleCf(rule, i - 1)
    ELSE ValidateRules(items, i + 1, valid_nutrient_codes, valid_symptom_codes)

\* mutant: the nutrient records are validated before the symptom records
_validate_knowledge_base_structure_NutrientsFirst(kb) ==
  LET c == ValidateContainers(kb, <<"symptoms", "nutrients", "rules">>) IN
  IF c # NoErr THEN c
  ELSE LET n == ValidateNutrients(kb.nutrients.items, 1, {}) IN
  IF n.err # NoErr THEN n.err
  ELSE LET s == ValidateSymptoms(kb.symptoms.items, 1, {}) IN
  IF s.err # NoErr THEN s.err
  ELSE ValidateRules(kb.rules.items, 1, n.codes, s.codes)

_validate_knowledge_base_structure(kb) ==
  LET c == ValidateContainers(kb, <<"symptoms", "nutrients", "rules">>) IN
  IF c # NoErr THEN c
  ELSE LET s == ValidateSymptoms(kb.symptoms.items, 1, {}) IN
  IF s.err # NoErr THEN s.err
  ELSE LET n == ValidateNutrients(kb.nutrients.items, 1, {}) IN
  IF n.err # NoErr THEN n.err
  ELSE ValidateRules(kb.rules.items, 1, n.codes, s.codes)

(***************************************************************************)
(* Exceptions.  `cause` is the validation error an exception carries in    *)
(* its message, NoErr when it carries none.                                *)
(***************************************************************************)
Exc(type, cause) == [type |-> type, cause |-> cause]
NoExc == Exc("none", NoErr)

(***************************************************************************)
(* load_knowledge_base(use_cache) on the file `source` and the module      *)
(* global `cache`: what it returns or raises, and the cache it leaves.     *)
(***************************************************************************)
LoadOutcome(ok, kb, exc, cache) ==
  [ok |-> ok, kb |-> kb, exc |-> exc, cache |-> cache]

\* mutant: a load that fails drops the cached knowledge base
load_knowledge_base_FailureClears(source, cache, use_cache) ==
  IF use_cache /\ cache # None THEN LoadOutcome(TRUE, cache, NoExc, cache)
  ELSE IF source.t \in {"missing", "garbage"}
    THEN LoadOutcome(FALSE, None, Exc("KnowledgeBaseError", NoErr), None)
  ELSE IF _validate_knowledge_base_structure(source.doc) # NoErr
    THEN LoadOutcome(FALSE, None,
                     Exc("KnowledgeBaseError",
                         _validate_knowledge_base_structure(source.doc)),
                     None)
    ELSE LoadOutcome(TRUE, source.doc, NoExc,
                     IF use_cache THEN source.doc ELSE cache)

load_knowledge_base(source, cache, use_cache) ==
  IF use_cache /\ cache # None THEN LoadOutcome(TRUE, cache, NoExc, cache)
  ELSE IF source.t = "missing"
    THEN LoadOutcome(FALSE, None, Exc("KnowledgeBaseError", NoErr), cache)
  ELSE IF source.t = "garbage"
    \* except json.JSONDecodeError
    THEN LoadOutcome(FALSE, None, Exc("KnowledgeBaseError", NoErr), cache)
  ELSE LET kb_data == source.doc
           v == _validate_knowledge_base_structure(kb_data)
       IN
    IF v # NoErr
      \* the KnowledgeBaseValidationError raised inside the try block is
      \* caught by `except Exception` and raised again as KnowledgeBaseError
      THEN LoadOutcome(FALSE, None, Exc("KnowledgeBaseError", v), cache)
      ELSE LoadOutcome(TRUE, kb_data, NoExc,
                       IF use_cache THEN kb_data ELSE cache)

(***************************************************************************)
(* Python dicts keep insertion order: a dict is a sequence of [code, ...]  *)
(* entries with distinct codes.  A user observation is only ever looked up *)
(* by key, so it is a function from its keys to raw values.                *)
(***************************************************************************)
EmptyObs == [c \in {} |-> BadV]

Keys(d) == {d[i].code : i \in 1..Len(d)}
Values(d) == {d[i].cf : i \in 1..Len(d)}

\* d[code] = value: replaces the value of an existing key, else appends
DictSet(d, entry) ==
  IF entry.code \in Keys(d)
    THEN [i \in 1..Len(d) |-> IF d[i].code = entry.code THEN entry ELSE d[i]]
    ELSE Append(d, entry)

(***************************************************************************)
(* validate_symptom_codes and _validate_selected_symptoms, on the loaded   *)
(* knowledge base kb.                                                      *)
(***************************************************************************)
Warn(kind, codes) == [kind |-> kind, codes |-> codes]

validate_symptom_codes(symptom_codes, kb) ==
  LET valid_symptom_codes ==
        {kb.symptoms.items[i].code : i \in 1..Len(kb.symptoms.items)}
  IN [valid |-> symptom_codes \cap valid_symptom_codes,
      invalid |-> symptom_codes \ valid_symptom_codes]

\* max(0.0, min(1.0, cf_float))
Clamp01(cf_float) == PyMax(Zero, PyMin(One, cf_float))

\* mutant: an out-of-range value is kept as it is
ValidatedValue_Unclamped(cf_value) == float(cf_value)

\* the value kept for one valid code whose value float() accepts
ValidatedValue(cf_value) ==
  LET cf_float == float(cf_value) IN
  IF ~(QLe(Zero, cf_float) /\ QLe(cf_float, One)) THEN Clamp01(cf_float)
  ELSE cf_float

\* mutant: an observation with an invalid code is dropped as a whole
_validate_selected_symptoms_AllOrNothing(selected_symptoms, kb) ==
  LET vc == validate_symptom_codes(DOMAIN selected_symptoms, kb)
      kept == IF vc.invalid # {} THEN {}
              ELSE {code \in vc.valid : ~float_raises(selected_symptoms[code])}
      validated == [code \in kept |->
                      AsFloat(ValidatedValue(selected_symptoms[code]))]
  IN [validated |-> validated,
      warnings |->
           (IF vc.invalid # {} THEN {Warn("invalid_codes", vc.invalid)} ELSE {})
      \cup (IF kept = {} THEN {Warn("no_valid", {})} ELSE {})]

\* selected_symptoms is not empty here
_validate_selected_symptoms(selected_symptoms, kb) ==
  LET vc == validate_symptom_codes(DOMAIN selected_symptoms, kb)
      kept == {code \in vc.valid : ~float_raises(selected_symptoms[code])}
      clamped == {code \in kept :
                    LET f == float(selected_symptoms[code]) IN
                    ~(QLe(Zero, f) /\ QLe(f, One))}
      validated == [code \in kept |->
                      AsFloat(ValidatedValue(selected_symptoms[code]))]
  IN [validated |-> validated,
      warnings |->
           (IF vc.invalid # {} THEN {Warn("invalid_codes", vc.invalid)} ELSE {})
      \cup {Warn("invalid_value", {code}) : code \in vc.valid \ kept}
      \cup {Warn("clamp", {code}) : code \in clamped}
      \cup (IF kept = {} THEN {Warn("no_valid", {})} ELSE {})]

(***************************************************************************)
(* _calculate_rule_cf and _combine_multiple_cf.                            *)
(***************************************************************************)
\* mutant: the factors are not brought into [0, 1]
_calculate_rule_cf_Unclamped(cf_pakar, cf_user) == QMul(cf_pakar, cf_user)

_calculate_rule_cf(cf_pakar, cf_user) ==
  QMul(PyMax(Zero, PyMin(One, cf_pakar)), PyMax(Zero, PyMin(One, cf_user)))

\* mutant: the complement is taken of the new value instead of the old one
CombineStep_WrongComplement(cf_combined, cf_next) ==
  QAdd(cf_combined, QMul(cf_next, QSub(One, cf_next)))

\* mutant: the new value is added as it is
CombineStep_Sum(cf_combined, cf_next) == QAdd(cf_combined, cf_next)

\* mutant: the parentheses are missing, CF_old + CF_new * 1 - CF_old
CombineStep_NoParentheses(cf_combined, cf_next) ==
  QSub(QAdd(cf_combined, QMul(cf_next, One)), cf_combined)

\* CF_combined = CF_old + CF_new * (1 - CF_old)
CombineStep(cf_combined, cf_next) ==
  QAdd(cf_combined, QMul(cf_next, QSub(One, cf_combined)))

\* for idx, cf_next in enumerate(cf_list[1:], start=1); cf_list[i] is the
\* code's cf_list[i - 1]
RECURSIVE CombineLoop(_, _, _, _)
CombineLoop(cf_list, i, cf_combined, steps) ==
  IF i > Len(cf_list) THEN [cf |-> cf_combined, steps |-> steps]
  ELSE LET cf_old_before == cf_combined
           cf_next == cf_list[i]
           cf_new_combined == CombineStep(cf_combined, cf_next)
       IN CombineLoop(cf_list, i + 1, cf_new_combined,
            Append(steps,
              [step |-> i - 1,
               cf_old |-> round4(cf_old_before),
               cf_new |-> round4(cf_next),
               calculation |-> <<round4(cf_old_before), round4(cf_next),
                                 round4(cf_old_before)>>,
               result |-> round4(cf_new_combined)]))

\* mutant: the loop starts at the first element, which is combined with
\* itself
_combine_multiple_cf_OffByOne(cf_list) ==
  IF cf_list = <<>> THEN [cf |-> Zero, steps |-> <<>>]
  ELSE IF Len(cf_list) = 1 THEN [cf |-> cf_list[1], steps |-> <<>>]
  ELSE CombineLoop(cf_list, 1, cf_list[1], <<>>)

_combine_multiple_cf(cf_list) ==
  IF cf_list = <<>> THEN [cf |-> Zero, steps |-> <<>>]
  ELSE IF Len(cf_list) = 1 THEN [cf |-> cf_list[1], steps |-> <<>>]
  ELSE CombineLoop(cf_list, 2, cf_list[1], <<>>)

(***************************************************************************)
(* The body of calculate_cf_with_details for one nutrient.                 *)
(***************************************************************************)
\* symptoms_data.get(s_code, {'name': s_code, 'category': 'Unknown'})
SymptomInfo(symptoms_list, s_code) ==
  LET hits == {i \in 1..Len(symptoms_list) :
                 /\ symptoms_list[i].dict
                 /\ "code" \in symptoms_list[i].has
                 /\ symptoms_list[i].code = s_code}
  IN IF hits = {} THEN [name |-> s_code, category |-> "Unknown"]
     ELSE LET i == CHOOSE j \in hits : \A k \in hits : k <= j
          IN [name |-> symptoms_list[i].name,
              category |-> IF "category" \in symptoms_list[i].has
                             THEN symptoms_list[i].category ELSE "Unknown"]

\* mutant: the rules of the nutrient, last declared first
NutrientRules_Reversed(rules, n_code) ==
  LET rs == SelectSeq(rules, LAMBDA r : r.nutrient = n_code)
  IN [i \in 1..Len(rs) |-> rs[Len(rs) + 1 - i]]

\* nutrient_rules = [r for r in rules if r['nutrient'] == n_code]
NutrientRules(rules, n_code) ==
  SelectSeq(rules, LAMBDA r : r.nutrient = n_code)

\* mutant: `if cf_user >= 0`
FiredRules_ZeroFires(nutrient_rules, selected_symptoms) ==
  SelectSeq(nutrient_rules,
            LAMBDA rule : /\ rule.symptom \in DOMAIN selected_symptoms
                          /\ QLe(Zero, float(selected_symptoms[rule.symptom])))

\* the rules of the loop that reach rules_used.append / cf_list.append
FiredRules(nutrient_rules, selected_symptoms) ==
  SelectSeq(nutrient_rules,
            LAMBDA rule : /\ rule.symptom \in DOMAIN selected_symptoms
                          /\ QLt(Zero, float(selected_symptoms[rule.symptom])))

\* one entry of rules_used, cf_rule being the rule's contribution
RuleUsedEntry(rule, symptom_info, cf_pakar, cf_user, cf_rule) ==
  [symptom_code |-> rule.symptom,
   symptom_name |-> symptom_info.name,
   symptom_category |-> symptom_info.category,
   cf_pakar |-> round4(cf_pakar),
   cf_user |-> round4(cf_user),
   cf_rule |-> round4(cf_rule),
   formula |-> <<round4(cf_pakar), round4(cf_user), round4(cf_rule)>>]

RuleUsed(rule, selected_symptoms, symptoms_list) ==
  RuleUsedEntry(rule, SymptomInfo(symptoms_list, rule.symptom),
                float(rule.cf), float(selected_symptoms[rule.symptom]),
                _calculate_rule_cf(float(rule.cf),
                                   float(selected_symptoms[rule.symptom])))

\* what the loop body leaves for one nutrient, from its rules_used and
\* cf_list and from combined = _combine_multiple_cf(cf_list)
NutrientEntry(nutrient, rules_used, cf_list, combined) ==
  [code |-> nutrient.code,
   cf |-> IF cf_list # <<>> THEN round4(combined.cf) ELSE Zero,
   detail |->
     [nutrient_code |-> nutrient.code,
      nutrient_name |-> nutrient.name,
      rules_used |-> rules_used,
      cf_list |-> [i \in 1..Len(cf_list) |-> round4(cf_list[i])],
      combination_steps |-> IF cf_list # <<>> THEN combined.steps ELSE <<>>,
      cf_final |-> IF cf_list # <<>> THEN round4(combined.cf) ELSE Zero,
      cf_percentage |->
        IF cf_list # <<>> THEN round_(QMul(combined.cf, Q(100, 1)), 100)
        ELSE Zero]]

\* cf_list of the rules that fired
FiredCfList(fired, selected_symptoms) ==
  [i \in 1..Len(fired) |->
     _calculate_rule_cf(float(fired[i].cf),
                        float(selected_symptoms[fired[i].symptom]))]

NutrientOfCfList(nutrient, rules_used, cf_list) ==
  NutrientEntry(nutrient, rules_used, cf_list, _combine_multiple_cf(cf_list))

NutrientOfFired(kb, nutrient, selected_symptoms, fired) ==
  NutrientOfCfList(nutrient,
    [i \in 1..Len(fired) |->
       RuleUsed(fired[i], selected_symptoms, kb.symptoms.items)],
    FiredCfList(fired, selected_symptoms))

NutrientDetails(kb, nutrient, selected_symptoms) ==
  NutrientOfFired(kb, nutrient, selected_symptoms,
    FiredRules(NutrientRules(kb.rules.items, nutrient.code),
               selected_symptoms))

\* float(selected_symptoms[s_code]) raises for a rule the loop reaches
LoopRaises(kb, selected_symptoms) ==
  \E i \in 1..Len(kb.nutrients.items), j \in 1..Len(kb.rules.items) :
    /\ kb.rules.items[j].nutrient = kb.nutrients.items[i].code
    /\ kb.rules.items[j].symptom \in DOMAIN selected_symptoms
    /\ \/ float_raises(kb.rules.items[j].cf)
       \/ float_raises(selected_symptoms[kb.rules.items[j].symptom])

\* nutrient_cfs[n_code] = ...; calculation_details[n_code] = ...
StoreNutrient(acc, r) ==
  [nutrient_cfs |-> DictSet(acc.nutrient_cfs, [code |-> r.code, cf |-> r.cf]),
   details |-> DictSet(acc.details, [code |-> r.code, detail |-> r.detail])]

\* for nutrient in nutrients: ...
RECURSIVE NutrientLoop(_, _, _, _)
NutrientLoop(kb, selected_symptoms, i, acc) ==
  IF i > Len(kb.nutrients.items) THEN acc
  ELSE NutrientLoop(kb, selected_symptoms, i + 1,
         StoreNutrient(acc,
           NutrientDetails(kb, kb.nutrients.items[i], selected_symptoms)))

\* the early return for an empty (validated) observation
RECURSIVE ZeroLoop(_, _, _)
ZeroLoop(nutrients, i, acc) ==
  IF i > Len(nutrients) THEN acc
  ELSE ZeroLoop(nutrients, i + 1,
         StoreNutrient(acc,
           [code |-> nutrients[i].code, cf |-> Zero,
            detail |-> [rules_used |-> <<>>, cf_final |-> Zero,
                        steps |-> <<>>]]))

NoResults == [nutrient_cfs |-> <<>>, details |-> <<>>]

(***************************************************************************)
(* calculate_cf_with_details(selected_symptoms, validate_input) on the     *)
(* file `source` and the cache `cache`.  Every path loads the knowledge    *)
(* base through load_knowledge_base(use_cache=True); the file does not     *)
(* change during the call, so all its loads give the same outcome L.       *)
(***************************************************************************)
CalcOutcome(exc, results, v, cache) ==
  [ok |-> exc = NoExc, exc |-> exc, nutrient_cfs |-> results.nutrient_cfs,
   details |-> results.details, validated |-> v.validated,
   warnings |-> v.warnings, cache |-> cache]

NotValidated(selected_symptoms) ==
  [validated |-> selected_symptoms, warnings |-> {}]

\* mutant: the early return for an empty observation does not read the
\* nutrients and so never meets the error of the load
CalcSelected_EmptyWithoutLoad(v, L) ==
  IF DOMAIN v.validated = {} THEN CalcOutcome(NoExc, NoResults, v, L.cache)
  ELSE IF ~L.ok
    THEN CalcOutcome(Exc("InferenceError", L.exc.cause), NoResults, v, L.cache)
  ELSE IF LoopRaises(L.kb, v.validated)
    THEN CalcOutcome(Exc("ValueError", NoErr), NoResults, v, L.cache)
  ELSE CalcOutcome(NoExc, NutrientLoop(L.kb, v.validated, 1, NoResults), v,
                   L.cache)

\* the call from `if not selected_symptoms:` on, v.validated being the
\* observation after the optional validation
CalcSelected(v, L) ==
  IF DOMAIN v.validated = {} THEN
    \* get_nutrients() re-raises the KnowledgeBaseError
    IF ~L.ok THEN CalcOutcome(L.exc, NoResults, v, L.cache)
    ELSE CalcOutcome(NoExc, ZeroLoop(L.kb.nutrients.items, 1, NoResults), v,
                     L.cache)
  ELSE IF ~L.ok
    \* except Exception as e: raise InferenceError(...)
    THEN CalcOutcome(Exc("InferenceError", L.exc.cause), NoResults, v, L.cache)
  ELSE IF LoopRaises(L.kb, v.validated)
    THEN CalcOutcome(Exc("ValueError", NoErr), NoResults, v, L.cache)
  ELSE CalcOutcome(NoExc, NutrientLoop(L.kb, v.validated, 1, NoResults), v,
                   L.cache)

\* `if validate_input: selected_symptoms = _validate_selected_symptoms(...)`
\* and the rest of the call
CalcLoaded(selected_symptoms, validate_input, L) ==
  IF ~validate_input THEN CalcSelected(NotValidated(selected_symptoms), L)
  ELSE IF DOMAIN selected_symptoms = {}
    THEN CalcSelected([validated |-> EmptyObs,
                       warnings |-> {Warn("no_symptoms", {})}], L)
  ELSE IF ~L.ok
    \* validate_symptom_codes re-raises the KnowledgeBaseError
    THEN CalcOutcome(L.exc, NoResults, NotValidated(EmptyObs), L.cache)
  ELSE CalcSelected(_validate_selected_symptoms(selected_symptoms, L.kb), L)

calculate_cf_with_details(selected_symptoms, validate_input, source, cache) ==
  CalcLoaded(selected_symptoms, validate_input,
             load_knowledge_base(source, cache, TRUE))

(***************************************************************************)
(* get_top_nutrient(cf_results), cf_results a dict in its iteration order. *)
(***************************************************************************)
\* max(cf_results.values())
MaxValue(cf_results) ==
  CHOOSE m \in Values(cf_results) : \A x \in Values(cf_results) : QLe(x, m)

\* mutant: the first key of the dict, whatever its value
FirstMaxKey_FirstKey(cf_results) == cf_results[1].code

\* max(cf_results, key=cf_results.get): the first key, in iteration order,
\* whose value no other exceeds
FirstMaxKey(cf_results) ==
  LET i == CHOOSE j \in 1..Len(cf_results) :
             /\ \A k \in 1..Len(cf_results) :
                  QLe(cf_results[k].cf, cf_results[j].cf)
             /\ \A k \in 1..(j - 1) : QLt(cf_results[k].cf, cf_results[j].cf)
  IN cf_results[i].code

\* mutant: no `if max_cf == 0.0: return None`
get_top_nutrient_NoZeroCheck(cf_results) ==
  IF cf_results = <<>> THEN None
  ELSE [t |-> "pair", code |-> FirstMaxKey(cf_results),
        cf |-> MaxValue(cf_results)]

get_top_nutrient(cf_results) ==
  IF cf_results = <<>> THEN None
  ELSE LET max_cf == MaxValue(cf_results) IN
    IF max_cf = Zero THEN None
    ELSE [t |-> "pair", code |-> FirstMaxKey(cf_results), cf |-> max_cf]

(***************************************************************************)
(* The knowledge bases and the observations of the inference runs.         *)
(***************************************************************************)
\* A catalog with the rules of three nutrients interleaved, the pair
\* (D1, G2) declared twice, one CF given as a string, and two nutrients, D2
\* and D3, that always tie.
KB_A ==
  Doc(List(<<Sym("G1"), Sym("G2")>>),
      List(<<Nut("D1"), Nut("D2"), Nut("D3")>>),
      List(<<Rule("D1", "G1", NumV(1, 4)),
             Rule("D2", "G1", NumV(1, 2)),
             Rule("D1", "G2", NumV(3, 4)),
             Rule("D3", "G1", StrV(1, 2)),
             Rule("D1", "G2", NumV(1, 2))>>))

\* The worked example of tests/verify_expert_system.py: Defisiensi Kalsium.
KB_D04 ==
  Doc(List(<<Sym("G19"), Sym("G20"), Sym("G21")>>),
      List(<<Nut("D01"), Nut("D04")>>),
      List(<<Rule("D04", "G19", NumV(85, 100)),
             Rule("D04", "G20", NumV(93, 100)),
             Rule("D04", "G21", NumV(70, 100))>>))

\* A valid catalog without nutrients.
KB_NoNutrients == Doc(List(<<Sym("G1")>>), List(<<>>), List(<<>>))

\* An invalid catalog: a rule refers to a nutrient that does not exist.
KB_Dangling ==
  Doc(List(<<Sym("G1"), Sym("G2")>>), List(<<Nut("D1")>>),
      List(<<Rule("D1", "G1", NumV(1, 2)), Rule("D7", "G2", NumV(1, 2))>>))

InferenceSources ==
  {FileJson(KB_A), FileJson(KB_D04), FileJson(KB_NoNutrients),
   FileJson(KB_Dangling), FileMissing}

\* user_symptoms of the worked example
WorkedExampleObs ==
  [c \in {"G19", "G20", "G21"} |->
     IF c = "G19" THEN NumV(8, 10)
     ELSE IF c = "G20" THEN NumV(10, 10) ELSE NumV(6, 10)]

\* G99 is a symptom code of no catalog.
ObsCodes == {"G1", "G2", "G99"}
ObsValues ==
  {NumV(0, 1), NumV(1, 2), NumV(1, 1), NumV(3, 2), NumV(-1, 2), BadV}

Observations ==
  {WorkedExampleObs} \cup
  UNION {[S -> ObsValues] : S \in {T \in SUBSET ObsCodes : Cardinality(T) <= MaxObs}}

(***************************************************************************)
(* The knowledge-base files of the loading runs: every section is sound or *)
(* has one of the shapes the validation tells apart, and at most           *)
(* MaxDefects sections of a file are not sound.                            *)
(***************************************************************************)
SoundSymptomSections == {List(<<Sym("G1"), Sym("G2")>>)}
DefectiveSymptomSections ==
  {Absent, NotList,
   List(<<Sym("G1"), NotDict(Sym("G2"))>>),
   List(<<Sym("G1"), Without(Sym("G2"), "name")>>),
   List(<<Without(Sym("G1"), "code"), Sym("G2")>>),
   List(<<Without(Without(Sym("G1"), "name"), "category"), Sym("G2")>>),
   List(<<Sym("G1"), Sym("G1")>>),
   List(<<Sym("G1"), Sym("G1"), Without(Sym("G2"), "category")>>)}

SoundNutrientSections == {List(<<Nut("D1"), Nut("D2")>>)}
DefectiveNutrientSections ==
  {Absent, NotList,
   List(<<NotDict(Nut("D1")), Nut("D2")>>),
   List(<<Nut("D1"), Without(Nut("D2"), "solusi")>>),
   List(<<Nut("D1"), Nut("D1")>>),
   List(<<Nut("D1"), Nut("D1"), NotDict(Nut("D2"))>>)}

SoundRuleSections ==
  {List(<<>>),
   List(<<Rule("D1", "G1", NumV(1, 2)), Rule("D2", "G2", StrV(1, 1))>>),
   List(<<Rule("D1", "G1", NumV(0, 1)), Rule("D1", "G1", NumV(1, 4))>>)}
DefectiveRuleSections ==
  {Absent, NotList,
   List(<<NotDict(Rule("D1", "G1", NumV(1, 2)))>>),
   List(<<Rule("D1", "G1", NumV(1, 2)),
          Without(Rule("D2", "G2", NumV(1, 2)), "symptom")>>),
   List(<<Rule("D9", "G1", NumV(1, 2))>>),
   List(<<Rule("D1", "G1", NumV(1, 2)), Rule("D2", "G9", NumV(1, 2))>>),
   List(<<Rule("D9", "G9", NumV(1, 2))>>),
   List(<<Rule("D1", "G1", NumV(3, 2))>>),
   List(<<Rule("D1", "G1", NumV(1, 2)), Rule("D2", "G2", NumV(-1, 4))>>),
   List(<<Rule("D1", "G1", BadV)>>),
   List(<<Rule("D1", "G1", NumV(3, 2)),
          Without(Rule("D2", "G2", NumV(1, 2)), "cf")>>),
   List(<<Rule("D1", "G1", BadV), Rule("D9", "G1", NumV(1, 2))>>)}

DefectiveSections(doc) ==
  Cardinality({k \in {"symptoms", "nutrients", "rules"} :
     doc[k] \in DefectiveSymptomSections \cup DefectiveNutrientSections
                  \cup DefectiveRuleSections})

KBDocs ==
  {doc \in {Doc(symptoms, nutrients, rules) :
              symptoms \in SoundSymptomSections \cup DefectiveSymptomSections,
              nutrients \in SoundNutrientSections \cup DefectiveNutrientSections,
              rules \in SoundRuleSections \cup DefectiveRuleSections} :
     DefectiveSections(doc) <= MaxDefects}

KBSources == {FileMissing, FileGarbage} \cup {FileJson(doc) : doc \in KBDocs}

\* the files an edit of data/knowledge_base.json leaves
RewrittenSources ==
  {FileMissing, FileGarbage,
   FileJson(Doc(List(<<Sym("G1"), Sym("G2")>>), List(<<Nut("D1"), Nut("D2")>>),
                List(<<Rule("D2", "G1", NumV(3, 4))>>))),
   FileJson(Doc(List(<<Sym("G1"), Sym("G1")>>), List(<<Nut("D1"), Nut("D2")>>),
                List(<<Rule("D9", "G1", NumV(3, 2))>>)))}

\* the observation of the loading runs, when it is not empty
LoadingObs == [c \in {"G1"} |-> NumV(1, 1)]

(***************************************************************************)
(* State.                                                                  *)
(***************************************************************************)
VARIABLES
  kb_source,          \* the content of data/knowledge_base.json
  kb_cache,           \* _kb_cache
  selected_symptoms,  \* the caller's observation
  validate_input,     \* the caller's validate_input flag
  call,               \* the last operation, with what it returned or raised
  threads             \* the calls in progress, one per thread of callers

vars ==
  <<kb_source, kb_cache, selected_symptoms, validate_input, call, threads>>

\* the threads that call the engine, and a thread that is in no call
Threads == {"t1", "t2"}

IdleThread ==
  [pc |-> "idle", op |-> "none", use_cache |-> FALSE, phase |-> "none",
   kb_data |-> None, v |-> NotValidated(EmptyObs), codes_kb |-> None,
   rules_kb |-> None, nutrients_kb |-> None, symptoms_kb |-> None,
   ret |-> None]

(***************************************************************************)
(* Operations.                                                             *)
(***************************************************************************)
\* load_knowledge_base(use_cache)
Loaded(use_cache, L) ==
  /\ kb_cache' = L.cache
  /\ call' = [op |-> "load", use_cache |-> use_cache,
              hit |-> use_cache /\ kb_cache # None, ok |-> L.ok,
              kb |-> L.kb, exc |-> L.exc]

LoadKnowledgeBase(use_cache) ==
  /\ Loaded(use_cache, load_knowledge_base(kb_source, kb_cache, use_cache))
  /\ UNCHANGED <<kb_source, selected_symptoms, validate_input, threads>>

\* clear_cache()
ClearCache ==
  /\ kb_cache' = None
  /\ call' = [op |-> "clear"]
  /\ UNCHANGED <<kb_source, selected_symptoms, validate_input, threads>>

\* calculate_cf_with_details(selected_symptoms, validate_input)
Returned(r) ==
  /\ kb_cache' = r.cache
  /\ call' = [op |-> "calculate_cf_with_details", ok |-> r.ok, exc |-> r.exc,
              nutrient_cfs |-> r.nutrient_cfs, details |-> r.details,
              validated |-> r.validated, warnings |-> r.warnings]

CalculateCfWithDetails ==
  /\ Returned(calculate_cf_with_details(selected_symptoms, validate_input,
                                        kb_source, kb_cache))
  /\ UNCHANGED <<kb_source, selected_symptoms, validate_input, threads>>

\* calculate_cf(selected_symptoms, validate_input): cf_results, _ = ...
ReturnedCf(r) ==
  /\ kb_cache' = r.cache
  /\ call' = [op |-> "calculate_cf", ok |-> r.ok, exc |-> r.exc,
              nutrient_cfs |-> r.nutrient_cfs]

CalculateCf ==
  /\ ReturnedCf(calculate_cf_with_details(selected_symptoms, validate_input,
                                          kb_source, kb_cache))
  /\ UNCHANGED <<kb_source, selected_symptoms, validate_input, threads>>

\* the dicts that hold the entries of d, in every insertion order
Orderings(d) ==
  {[i \in 1..Len(d) |-> d[p[i]]] :
     p \in {q \in [1..Len(d) -> 1..Len(d)] :
              \A i, j \in 1..Len(d) : q[i] = q[j] => i = j}}

\* get_top_nutrient(cf_results), on the CF mapping a calculation returned,
\* as the caller holds it
TopArguments ==
  IF call.op \in {"calculate_cf", "calculate_cf_with_details"} /\ call.ok
    THEN Orderings(call.nutrient_cfs) ELSE {}

GetTopNutrient(cf_results) ==
  /\ cf_results \in TopArguments
  /\ call' = [op |-> "get_top_nutrient", cf_results |-> cf_results,
              catalog_order |-> call.nutrient_cfs,
              ret |-> get_top_nutrient(cf_results)]
  /\ UNCHANGED <<kb_source, kb_cache, selected_symptoms, validate_input,
               threads>>

\* the knowledge-base file is replaced
WriteSource(source) ==
  /\ source # kb_source
  /\ kb_source' = source
  /\ call' = [op |-> "write"]
  /\ UNCHANGED <<kb_cache, selected_symptoms, validate_input, threads>>

(***************************************************************************)
(* The inference runs: one knowledge-base file, one observation.           *)
(***************************************************************************)
Init ==
  /\ kb_source \in InferenceSources
  /\ kb_cache = None
  /\ selected_symptoms \in Observations
  /\ validate_input \in BOOLEAN
  /\ call = [op |-> "init"]
  /\ threads = [t \in Threads |-> IdleThread]

Next ==
  \/ \E use_cache \in BOOLEAN : LoadKnowledgeBase(use_cache)
  \/ ClearCache
  \/ CalculateCfWithDetails
  \/ CalculateCf
  \/ \E cf_results \in TopArguments : GetTopNutrient(cf_results)

Spec == Init /\ [][Next]_vars

(***************************************************************************)
(* The loading runs: the knowledge-base file takes every shape, is edited  *)
(* between the loads, and the inference loads it through the cache.        *)
(***************************************************************************)
InitKB ==
  /\ kb_source \in KBSources
  /\ kb_cache = None
  /\ selected_symptoms \in {EmptyObs, LoadingObs}
  /\ validate_input \in BOOLEAN
  /\ call = [op |-> "init"]
  /\ threads = [t \in Threads |-> IdleThread]

NextKB ==
  \/ \E use_cache \in BOOLEAN : LoadKnowledgeBase(use_cache)
  \/ ClearCache
  \/ CalculateCf
  \/ CalculateCfWithDetails
  \/ \E source \in RewrittenSources : WriteSource(source)

SpecKB == InitKB /\ [][NextKB]_vars

(***************************************************************************)
(* The runs of the two formulas: contributions are computed one by one     *)
(* from confidences in [0, 1] and the list collected so far is combined.   *)
(***************************************************************************)
\* the expert confidences and the user confidences of these runs
PakarConfidences == {Q(0, 1), Q(1, 4), Q(1, 2), Q(3, 4), Q(1, 1)}
UserConfidences == {Q(0, 1), Q(1, 2), Q(1, 1)}

\* cf_rule = _calculate_rule_cf(cf_pakar, cf_user); cf_list.append(cf_rule)
AppendRuleCf(cf_pakar, cf_user) ==
  /\ call.op = "cf_list"
  /\ Len(call.cf_list) < MaxContributions
  /\ call' = [op |-> "cf_list",
              cf_list |-> Append(call.cf_list,
                                 _calculate_rule_cf(cf_pakar, cf_user))]
  /\ UNCHANGED <<kb_source, kb_cache, selected_symptoms, validate_input,
               threads>>

\* cf_final, combination_steps = _combine_multiple_cf(cf_list)
Combine(ret) ==
  /\ call' = [op |-> "_combine_multiple_cf", cf_list |-> call.cf_list,
              cf |-> ret.cf, steps |-> ret.steps]
  /\ UNCHANGED <<kb_source, kb_cache, selected_symptoms, validate_input,
               threads>>

CombineMultipleCf ==
  /\ call.op = "cf_list"
  /\ Combine(_combine_multiple_cf(call.cf_list))

InitCF ==
  /\ kb_source = FileMissing
  /\ kb_cache = None
  /\ selected_symptoms = EmptyObs
  /\ validate_input = TRUE
  /\ call = [op |-> "cf_list", cf_list |-> <<>>]
  /\ threads = [t \in Threads |-> IdleThread]

NextCF ==
  \/ \E cf_pakar \in PakarConfidences, cf_user \in UserConfidences :
       AppendRuleCf(cf_pakar, cf_user)
  \/ CombineMultipleCf

SpecCF == InitCF /\ [][NextCF]_vars

(***************************************************************************)
(* The concurrent runs.  The module has no lock: a call runs line by line  *)
(* and a step of one thread is a stretch of code that touches _kb_cache or *)
(* the file once; all that follows on the thread's own data, up to the     *)
(* next such line, belongs to the same step.                               *)
(***************************************************************************)
\* two valid catalogs that differ in every section
KB_1 ==
  Doc(List(<<Sym("G1"), Sym("G2")>>), List(<<Nut("D1")>>),
      List(<<Rule("D1", "G2", NumV(1, 2))>>))

KB_2 ==
  Doc(List(<<Sym("G1")>>), List(<<Nut("D1"), Nut("D2")>>),
      List(<<Rule("D2", "G1", NumV(1, 2))>>))

ConcurrentObs == [c \in {"G1", "G2"} |-> NumV(1, 1)]

\* what a load hands to its caller
Raised(exc) == [ok |-> FALSE, kb |-> None, exc |-> exc]
ReturnedKb(kb) == [ok |-> TRUE, kb |-> kb, exc |-> NoExc]

\* the call of the thread is over
Done(th, ret) == [th EXCEPT !.pc = "done", !.ret = ret]

CalcRaised(th, exc) ==
  Done(th, [ok |-> FALSE, exc |-> exc, nutrient_cfs |-> <<>>,
            details |-> <<>>])

CalcReturned(th, results) ==
  Done(th, [ok |-> TRUE, exc |-> NoExc,
            nutrient_cfs |-> results.nutrient_cfs,
            details |-> results.details])

\* the next load_knowledge_base() of the call
NextLoad(th, phase) == [th EXCEPT !.pc = "check", !.phase = phase]

\* the loop of calculate_cf_with_details over what the three getters
\* returned
CalcLoop(th, kb) ==
  IF LoopRaises(kb, th.v.validated)
    THEN CalcRaised(th, Exc("ValueError", NoErr))
    ELSE CalcReturned(th, NutrientLoop(kb, th.v.validated, 1, NoResults))

\* calculate_cf_with_details goes on after a load_knowledge_base() of
\* validate_symptom_codes, get_nutrients, get_rules or get_symptoms has
\* handed L to it; kb.get(...) on None raises AttributeError
CalcContinue(th, L) ==
  IF th.phase = "validate_symptom_codes" THEN
    IF ~L.ok THEN CalcRaised(th, L.exc)
    ELSE IF L.kb = None THEN CalcRaised(th, Exc("AttributeError", NoErr))
    ELSE LET v == _validate_selected_symptoms(selected_symptoms, L.kb) IN
      NextLoad([th EXCEPT !.codes_kb = L.kb, !.v = v],
               IF DOMAIN v.validated = {} THEN "early_get_nutrients"
               ELSE "get_rules")
  ELSE IF th.phase = "early_get_nutrients" THEN
    IF ~L.ok THEN CalcRaised(th, L.exc)
    ELSE IF L.kb = None THEN CalcRaised(th, Exc("AttributeError", NoErr))
    ELSE CalcReturned([th EXCEPT !.nutrients_kb = L.kb],
                      ZeroLoop(L.kb.nutrients.items, 1, NoResults))
  \* inside the try block: except Exception as e: raise InferenceError(...)
  ELSE IF ~L.ok THEN CalcRaised(th, Exc("InferenceError", L.exc.cause))
  ELSE IF L.kb = None THEN CalcRaised(th, Exc("InferenceError", NoErr))
  ELSE IF th.phase = "get_rules"
    THEN NextLoad([th EXCEPT !.rules_kb = L.kb], "get_nutrients")
  ELSE IF th.phase = "get_nutrients"
    THEN NextLoad([th EXCEPT !.nutrients_kb = L.kb], "get_symptoms")
  ELSE CalcLoop([th EXCEPT !.symptoms_kb = L.kb],
                Doc(L.kb.symptoms, th.nutrients_kb.nutrients,
                    th.rules_kb.rules))

\* load_knowledge_base hands L to its caller
Deliver(th, L) ==
  IF th.op = "load" THEN Done(th, L)
  ELSE CalcContinue(th, L)

Step(t, th) ==
  /\ threads' = [threads EXCEPT ![t] = th]
  /\ UNCHANGED <<kb_source, selected_symptoms, validate_input, call>>

Free(t) == threads[t].pc \in {"idle", "done"}

\* a thread calls load_knowledge_base(use_cache)
StartLoad(t, use_cache) ==
  /\ Free(t)
  /\ Step(t, [IdleThread EXCEPT !.pc = "check", !.op = "load",
                                !.use_cache = use_cache])
  /\ UNCHANGED kb_cache

\* a thread calls calculate_cf_with_details(selected_symptoms,
\* validate_input), which runs up to its first load_knowledge_base()
CalcStarted(th) ==
  IF validate_input /\ DOMAIN selected_symptoms # {}
    THEN NextLoad(th, "validate_symptom_codes")
  ELSE IF DOMAIN selected_symptoms = {}
    THEN NextLoad(th, "early_get_nutrients")
  ELSE NextLoad([th EXCEPT !.v = NotValidated(selected_symptoms)],
                "get_rules")

StartCalc(t) ==
  /\ Free(t)
  /\ Step(t, CalcStarted([IdleThread EXCEPT !.op = "calc",
                                            !.use_cache = TRUE]))
  /\ UNCHANGED kb_cache

\* if use_cache and _kb_cache is not None:
CheckCache(t) ==
  /\ threads[t].pc = "check"
  /\ Step(t, [threads[t] EXCEPT !.pc =
                IF threads[t].use_cache /\ kb_cache # None
                  THEN "return_cache" ELSE "read"])
  /\ UNCHANGED kb_cache

\* return _kb_cache
ReturnCache(t) ==
  /\ threads[t].pc = "return_cache"
  /\ Step(t, Deliver(threads[t], ReturnedKb(kb_cache)))
  /\ UNCHANGED kb_cache

\* os.path.exists, open, json.load and the validation of kb_data
Read(t, L) ==
  /\ Step(t, IF L.ok THEN [threads[t] EXCEPT !.pc = "store", !.kb_data = L.kb]
             ELSE Deliver(threads[t], Raised(L.exc)))
  /\ UNCHANGED kb_cache

ReadSource(t) ==
  /\ threads[t].pc = "read"
  /\ Read(t, load_knowledge_base(kb_source, None, FALSE))

\* if use_cache: _kb_cache = kb_data; return kb_data
StoreCache(t) ==
  /\ threads[t].pc = "store"
  /\ kb_cache' = IF threads[t].use_cache THEN threads[t].kb_data ELSE kb_cache
  /\ Step(t, Deliver(threads[t], ReturnedKb(threads[t].kb_data)))

\* a thread calls clear_cache()
ClearCacheBy(t) ==
  /\ Free(t)
  /\ kb_cache' = None
  /\ Step(t, Done([IdleThread EXCEPT !.op = "clear"], ReturnedKb(None)))

\* the loads and clear_cache calls of several threads, the file unchanged
ConcurrentLoadSources ==
  {FileJson(KB_1), FileJson(KB_Dangling), FileMissing}

InitLoads ==
  /\ kb_source \in ConcurrentLoadSources
  /\ kb_cache = None
  /\ selected_symptoms = ConcurrentObs
  /\ validate_input = TRUE
  /\ call = [op |-> "init"]
  /\ threads = [t \in Threads |-> IdleThread]

NextLoads ==
  \E t \in Threads :
    \/ \E use_cache \in BOOLEAN : StartLoad(t, use_cache)
    \/ CheckCache(t)
    \/ ReturnCache(t)
    \/ ReadSource(t)
    \/ StoreCache(t)
    \/ ClearCacheBy(t)

SpecLoads == InitLoads /\ [][NextLoads]_vars

\* one thread runs inferences while another reloads: the file is edited,
\* the cache is cleared and the knowledge base is loaded again
ConcurrentSources == {FileJson(KB_1), FileJson(KB_2)}

InitConc ==
  /\ kb_source \in ConcurrentSources
  /\ kb_cache = None
  /\ selected_symptoms \in {EmptyObs, ConcurrentObs}
  /\ validate_input \in BOOLEAN
  /\ call = [op |-> "init"]
  /\ threads = [t \in Threads |-> IdleThread]

NextConc ==
  \/ \E t \in Threads :
       \/ StartLoad(t, TRUE)
       \/ StartCalc(t)
       \/ CheckCache(t)
       \/ ReturnCache(t)
       \/ ReadSource(t)
       \/ StoreCache(t)
       \/ ClearCacheBy(t)
  \/ \E source \in ConcurrentSources : WriteSource(source)

SpecConc == InitConc /\ [][NextConc]_vars

(***************************************************************************)
(* The consultations: POST /consult parses the submitted form and hands    *)
(* what it keeps to calculate_cf_with_details(..., validate_input=True).   *)
(* selected_symptoms holds the symptoms[...] fields of the form.           *)
(***************************************************************************)
\* _parse_symptom_form_data(form_data): a field is kept when its value is a
\* number with 0 < value <= 1
ParsedCodes(form_data) ==
  {code \in DOMAIN form_data :
     /\ ~float_raises(form_data[code])
     /\ QLt(Zero, float(form_data[code]))
     /\ QLe(float(form_data[code]), One)}

_parse_symptom_form_data(form_data) ==
  [code \in ParsedCodes(form_data) |-> AsFloat(float(form_data[code]))]

AllZero(cf_results) ==
  \A i \in 1..Len(cf_results) : cf_results[i].cf = Zero

\* what consult_result answers: the page and what it shows
Response(status, page, parsed, cf_results, top) ==
  [op |-> "consult_result", status |-> status, page |-> page,
   form |-> selected_symptoms, symptoms_selected |-> parsed,
   cf_results |-> cf_results, top |-> top]

\* consult_result after calculate_cf_with_details has returned or raised r
ResultPage(parsed, r) ==
  IF ~r.ok THEN Response(500, "error", parsed, <<>>, None)
  ELSE IF r.nutrient_cfs = <<>> \/ AllZero(r.nutrient_cfs)
    THEN Response(200, "info_message", parsed, <<>>, None)
  ELSE Response(200, "result", parsed, r.nutrient_cfs,
                get_top_nutrient(r.nutrient_cfs))

\* `if not selected_symptoms:` answers without an inference; its
\* get_nutrients() loads the knowledge base and its error is swallowed
Consulted(parsed, L, r) ==
  IF DOMAIN parsed = {}
    THEN /\ kb_cache' = L.cache
         /\ call' = Response(200, "error_message", parsed, <<>>, None)
    ELSE /\ kb_cache' = r.cache
         /\ call' = ResultPage(parsed, r)

ConsultResult ==
  /\ Consulted(_parse_symptom_form_data(selected_symptoms),
               load_knowledge_base(kb_source, kb_cache, TRUE),
               calculate_cf_with_details(
                 _parse_symptom_form_data(selected_symptoms), TRUE,
                 kb_source, kb_cache))
  /\ UNCHANGED <<kb_source, selected_symptoms, validate_input, threads>>

InitWeb ==
  /\ kb_source \in InferenceSources
  /\ kb_cache = None
  /\ selected_symptoms \in Observations
  /\ validate_input = TRUE
  /\ call = [op |-> "init"]
  /\ threads = [t \in Threads |-> IdleThread]

\* the application loads the knowledge base at startup without the cache
\* and in its health check with it
NextWeb ==
  \/ \E use_cache \in BOOLEAN : LoadKnowledgeBase(use_cache)
  \/ ConsultResult

SpecWeb == InitWeb /\ [][NextWeb]_vars

(***************************************************************************)
(* Vocabulary of the properties.                                           *)
(***************************************************************************)
IsCalc == call.op \in {"calculate_cf", "calculate_cf_with_details"}
IsDetails == call.op = "calculate_cf_with_details"
IsTop == call.op = "get_top_nutrient"

SymptomCodes(kb) == {kb.symptoms.items[i].code : i \in 1..Len(kb.symptoms.items)}
NutrientCodes(kb) ==
  {kb.nutrients.items[i].code : i \in 1..Len(kb.nutrients.items)}

\* the value of key code in dict d
Lookup(d, code) == (CHOOSE i \in 1..Len(d) : d[i].code = code)

\* an observation as the normalizer leaves it: known codes, numbers in [0, 1]
IsNormalized(obs, kb) ==
  \A c \in DOMAIN obs :
    /\ c \in SymptomCodes(kb)
    /\ obs[c].t # "bad"
    /\ QLe(Zero, float(obs[c])) /\ QLe(float(obs[c]), One)

\* the contributions cf_pakar * cf_user of nutrient n, from rule i on, in
\* the order the rules are declared
RECURSIVE DeclaredContributions(_, _, _, _)
DeclaredContributions(rules, n, obs, i) ==
  IF i > Len(rules) THEN <<>>
  ELSE IF /\ rules[i].nutrient = n
          /\ rules[i].symptom \in DOMAIN obs
          /\ QLt(Zero, float(obs[rules[i].symptom]))
    THEN <<[symptom |-> rules[i].symptom,
            c |-> QMul(float(rules[i].cf), float(obs[rules[i].symptom]))]>>
         \o DeclaredContributions(rules, n, obs, i + 1)
    ELSE DeclaredContributions(rules, n, obs, i + 1)

\* combined[1] = c[1], combined[i] = combined[i-1] + c[i] * (1 - combined[i-1])
RECURSIVE Combined(_, _)
Combined(c, i) ==
  IF i = 1 THEN c[1].c
  ELSE QAdd(Combined(c, i - 1),
            QMul(c[i].c, QSub(One, Combined(c, i - 1))))

FoldCF(c) == IF c = <<>> THEN Zero ELSE Combined(c, Len(c))

(***************************************************************************)
(* C1.  The worked example.                                                *)
(***************************************************************************)
WorkedExample ==
  /\ selected_symptoms = WorkedExampleObs
  /\ kb_cache = KB_D04
  /\ IsCalc
  /\ call.ok

D04Detail == call.details[Lookup(call.details, "D04")].detail

\* C1 as stated: with the rules of D04 being G19: 0.85, G20: 0.93, G21: 0.70
\* and the input {G19: 0.8, G20: 1.0, G21: 0.6}, calculate_cf_with_details
\* yields the contributions 0.68, 0.93, 0.42 and the combination steps
\* 0.68 -> 0.9776 -> 0.987008, and calculate_cf returns 0.987 for D04.
C1_WorkedExample_AsStated ==
  WorkedExample =>
    /\ call.nutrient_cfs[Lookup(call.nutrient_cfs, "D04")].cf = Q(987, 1000)
    /\ IsDetails =>
         /\ [i \in 1..Len(D04Detail.rules_used) |-> D04Detail.rules_used[i].cf_rule]
              = <<Q(68, 100), Q(93, 100), Q(42, 100)>>
         /\ Len(D04Detail.combination_steps) = 2
         /\ D04Detail.combination_steps[1].cf_old = Q(68, 100)
         /\ D04Detail.combination_steps[1].result = Q(9776, 10000)
         /\ D04Detail.combination_steps[2].cf_old = Q(9776, 10000)
         /\ D04Detail.combination_steps[2].result = Q(987008, 1000000)

\* C1 (amended): in the worked example calculate_cf_with_details yields the
\* contributions 0.68, 0.93, 0.42 and the recorded combination steps
\* 0.68 -> 0.9776 -> 0.987, every recorded value being rounded to 4 decimals
\* (the unrounded running value 0.987008 stays inside _combine_multiple_cf),
\* and calculate_cf returns 0.987 for D04.
C1_WorkedExample ==
  WorkedExample =>
    /\ call.nutrient_cfs[Lookup(call.nutrient_cfs, "D04")].cf = Q(987, 1000)
    /\ IsDetails =>
         /\ [i \in 1..Len(D04Detail.rules_used) |-> D04Detail.rules_used[i].cf_rule]
              = <<Q(68, 100), Q(93, 100), Q(42, 100)>>
         /\ [i \in 1..Len(D04Detail.rules_used) |->
               D04Detail.rules_used[i].symptom_code] = <<"G19", "G20", "G21">>
         /\ Len(D04Detail.combination_steps) = 2
         /\ D04Detail.combination_steps[1].cf_old = Q(68, 100)
         /\ D04Detail.combination_steps[1].cf_new = Q(93, 100)
         /\ D04Detail.combination_steps[1].result = Q(9776, 10000)
         /\ D04Detail.combination_steps[2].cf_old = Q(9776, 10000)
         /\ D04Detail.combination_steps[2].cf_new = Q(42, 100)
         /\ D04Detail.combination_steps[2].result = Q(987, 1000)
         /\ D04Detail.cf_final = Q(987, 1000)
         /\ _combine_multiple_cf(<<Q(68, 100), Q(93, 100), Q(42, 100)>>).cf
              = Q(987008, 1000000)

C1_WorkedExample_Witness ==
  /\ WorkedExample
  /\ IsDetails
  /\ Len(D04Detail.combination_steps) = 2

(***************************************************************************)
(* C2.  The final CF is the left-to-right fold in declared rule order.     *)
(***************************************************************************)
\* C2: for every nutrient and every normalized observation, the final CF of
\* calculate_cf_with_details is the fold combined[i] = combined[i-1] + c[i] *
\* (1 - combined[i-1]) of the contributions cf_pakar * cf_user of the
\* nutrient's rules in declared order, rounded to 4 decimals, and the
\* recorded contribution list is in that declared order.
C2_DeclaredOrderFold ==
  (IsDetails /\ call.ok /\ IsNormalized(call.validated, kb_cache)) =>
    \A i \in 1..Len(kb_cache.nutrients.items) :
      /\ i <= Len(call.nutrient_cfs) /\ i <= Len(call.details)
      /\ call.nutrient_cfs[i] =
           [code |-> kb_cache.nutrients.items[i].code,
            cf |-> round4(FoldCF(DeclaredContributions(kb_cache.rules.items,
                     kb_cache.nutrients.items[i].code, call.validated, 1)))]
      /\ call.details[i].code = kb_cache.nutrients.items[i].code
      /\ [j \in 1..Len(call.details[i].detail.rules_used) |->
            [symptom |-> call.details[i].detail.rules_used[j].symptom_code,
             c |-> call.details[i].detail.rules_used[j].cf_rule]]
         = [j \in 1..Len(DeclaredContributions(kb_cache.rules.items,
                     kb_cache.nutrients.items[i].code, call.validated, 1)) |->
            [symptom |-> DeclaredContributions(kb_cache.rules.items,
                     kb_cache.nutrients.items[i].code, call.validated, 1)[j].symptom,
             c |-> round4(DeclaredContributions(kb_cache.rules.items,
                     kb_cache.nutrients.items[i].code, call.validated, 1)[j].c)]]

\* three contributions of one nutrient, from two symptoms, were folded
C2_DeclaredOrderFold_Witness ==
  /\ IsDetails /\ call.ok /\ kb_cache = KB_A
  /\ IsNormalized(call.validated, kb_cache)
  /\ Len(call.details[1].detail.rules_used) = 3
  /\ call.details[1].detail.rules_used[1].symptom_code = "G1"
  /\ call.nutrient_cfs[1].cf = Q(9062, 10000)

(***************************************************************************)
(* C3.  The normalizer.                                                    *)
(***************************************************************************)
\* a value clamped into [0, 1]
ClampedInto01(x) == IF QLt(x, Zero) THEN Zero ELSE IF QLt(One, x) THEN One ELSE x

\* the codes of obs that kb knows and whose values are numbers
Usable(obs, kb) ==
  {c \in DOMAIN obs : c \in SymptomCodes(kb) /\ obs[c].t \in {"num", "numstr"}}

OutOfRange(x) == QLt(x, Zero) \/ QLt(One, x)

\* C3: _validate_selected_symptoms returns exactly the mapping that has, for
\* each entry whose code is a symptom of the knowledge base and whose value
\* is a number, the code mapped to the value clamped into [0, 1]; entries
\* with unknown codes or non-numeric values are dropped without an error,
\* and a warning records every clamp.
C3_Normalize ==
  (IsDetails /\ validate_input /\ kb_cache # None) =>
    /\ call.ok
    /\ DOMAIN call.validated = Usable(selected_symptoms, kb_cache)
    /\ \A c \in DOMAIN call.validated :
         /\ call.validated[c].t = "num"
         /\ float(call.validated[c]) = ClampedInto01(float(selected_symptoms[c]))
    /\ \A c \in DOMAIN selected_symptoms :
         Warn("clamp", {c}) \in call.warnings
           <=> /\ c \in Usable(selected_symptoms, kb_cache)
               /\ OutOfRange(float(selected_symptoms[c]))

\* a known code above 1 was clamped and an unknown code dropped
C3_Normalize_Witness ==
  /\ IsDetails /\ validate_input /\ kb_cache = KB_A
  /\ DOMAIN selected_symptoms = {"G1", "G99"}
  /\ selected_symptoms["G1"] = NumV(3, 2)
  /\ DOMAIN call.validated = {"G1"}
  /\ call.validated["G1"] = NumV(1, 1)
  /\ Warn("clamp", {"G1"}) \in call.warnings

(***************************************************************************)
(* C4.  Zero evidence.                                                     *)
(***************************************************************************)
\* every entry of obs (if any) has an unknown code or a non-numeric value
ZeroEvidence(obs, kb) ==
  \A c \in DOMAIN obs : c \notin SymptomCodes(kb) \/ obs[c].t = "bad"

\* every entry of obs (if any) has an unknown code
NoKnownCode(obs, kb) == \A c \in DOMAIN obs : c \notin SymptomCodes(kb)

\* C4: with a valid knowledge base, an empty observation, or one whose every
\* entry is unknown or invalid, makes calculate_cf return exactly 0 for
\* every nutrient, without an exception, and get_top_nutrient on that
\* mapping returns None.  The invalid entries are those the validation of
\* the input (validate_input, on by default) drops; an empty observation
\* and unknown codes give the same result without it.
C4_ZeroEvidence ==
  /\ (IsCalc /\ kb_cache # None
        /\ \/ validate_input /\ ZeroEvidence(selected_symptoms, kb_cache)
           \/ NoKnownCode(selected_symptoms, kb_cache)) =>
       /\ call.ok
       /\ Keys(call.nutrient_cfs) = NutrientCodes(kb_cache)
       /\ \A i \in 1..Len(call.nutrient_cfs) : call.nutrient_cfs[i].cf = Zero
  /\ (IsTop /\ kb_cache # None
        /\ \/ validate_input /\ ZeroEvidence(selected_symptoms, kb_cache)
           \/ NoKnownCode(selected_symptoms, kb_cache)) =>
       call.ret = None

\* the ranker ran on the result of an observation with only an unknown code
\* and a non-numeric value
C4_ZeroEvidence_Witness ==
  /\ IsTop /\ validate_input /\ kb_cache = KB_A
  /\ DOMAIN selected_symptoms = {"G1", "G99"}
  /\ selected_symptoms["G1"] = BadV
  /\ Len(call.cf_results) = 3
  /\ call.ret = None

(***************************************************************************)
(* C5.  The ranker's result.                                               *)
(***************************************************************************)
\* C5: get_top_nutrient returns nothing when the CF mapping is empty or every
\* value is exactly 0; otherwise it returns a pair (code, cf) where code is
\* a key of the mapping, cf the value mapped to code, and cf is greater than
\* or equal to every value of the mapping.
C5_TopNutrient ==
  IsTop =>
    IF \A i \in 1..Len(call.cf_results) : call.cf_results[i].cf = Zero
      THEN call.ret = None
      ELSE /\ call.ret # None
           /\ call.ret.code \in Keys(call.cf_results)
           /\ call.ret.cf
                = call.cf_results[Lookup(call.cf_results, call.ret.code)].cf
           /\ \A i \in 1..Len(call.cf_results) :
                QLe(call.cf_results[i].cf, call.ret.cf)

\* the maximum was not the first entry of the mapping
C5_TopNutrient_Witness ==
  /\ IsTop
  /\ call.ret # None
  /\ Len(call.cf_results) = 3
  /\ QLt(call.cf_results[1].cf, call.ret.cf)
  /\ QLt(Zero, call.cf_results[1].cf)

(***************************************************************************)
(* C6.  Ties.                                                              *)
(***************************************************************************)
\* C6: when several nutrients are tied for the maximum CF, get_top_nutrient
\* picks deterministically: the same set of (nutrient code, CF) pairs yields
\* the same chosen nutrient regardless of the enumeration (insertion) order
\* of the mapping passed to it.
C6_TieBreakIgnoresOrder ==
  IsTop =>
    \A m \in Orderings(call.cf_results) : get_top_nutrient(m) = call.ret

(***************************************************************************)
(* C7.  Keys and range of the CF mapping.                                  *)
(***************************************************************************)
\* C7: for every observation, validated or not, with values in or out of
\* range, the CF mapping that calculate_cf_with_details returns has exactly
\* the nutrient codes of the knowledge base as its keys, and every value
\* lies in [0, 1].
C7_KeysAndRange ==
  (IsDetails /\ call.ok) =>
    /\ Keys(call.nutrient_cfs) = NutrientCodes(kb_cache)
    /\ Len(call.nutrient_cfs) = Cardinality(NutrientCodes(kb_cache))
    /\ \A i \in 1..Len(call.nutrient_cfs) :
         /\ QLe(Zero, call.nutrient_cfs[i].cf)
         /\ QLe(call.nutrient_cfs[i].cf, One)

\* an unvalidated observation with a value above 1 produced evidence
C7_KeysAndRange_Witness ==
  /\ IsDetails /\ call.ok /\ ~validate_input /\ kb_cache = KB_A
  /\ "G2" \in DOMAIN selected_symptoms
  /\ selected_symptoms["G2"] = NumV(3, 2)
  /\ call.nutrient_cfs[1].cf = Q(7, 8)


(***************************************************************************)
(* Vocabulary of the loading properties: the violations a document has,    *)
(* stated record by record.                                                *)
(***************************************************************************)
IsLoad == call.op = "load"
\* the load read the file: there was no cache hit
ReadsFile == IsLoad /\ ~call.hit /\ kb_source.t = "json"

Items(doc, section) == doc[section].items
HasKey(item, k) == item.dict /\ k \in item.has

\* the place of a check in the run of the validation: the stage (containers,
\* symptoms, nutrients, rules), the index in the stage, the step at the index
Rank(stage, idx, step) == stage * 1000 + idx * 10 + step
Violation(err, rank) == [err |-> err, rank |-> rank]

Sections == <<"symptoms", "nutrients", "rules">>

ContainerViolations(doc) ==
  {Violation(Err("missing_container", Sections[p], 0, Sections[p]),
             Rank(0, p, 0)) : p \in {q \in 1..3 : doc[Sections[q]].t = "absent"}}
  \cup
  {Violation(Err("not_list", Sections[p], 0, Sections[p]),
             Rank(0, p, 1)) : p \in {q \in 1..3 : doc[Sections[q]].t = "notlist"}}

\* a record that is no dict, a record without a required key
ShapeViolations(doc, section, stage, keys) ==
  LET items == Items(doc, section) IN
  {Violation(Err("not_dict", section, i - 1, ""), Rank(stage, i, 0)) :
     i \in {j \in 1..Len(items) : ~items[j].dict}}
  \cup
  {Violation(Err("missing_key", section, x[1] - 1, keys[x[2]]),
             Rank(stage, x[1], x[2])) :
     x \in {y \in (1..Len(items)) \X (1..Len(keys)) :
              items[y[1]].dict /\ keys[y[2]] \notin items[y[1]].has}}

\* a record whose code an earlier record of the section has
DuplicateViolations(doc, section, stage) ==
  LET items == Items(doc, section) IN
  {Violation(Err("duplicate", section, 0, items[i].code), Rank(stage, i, 5)) :
     i \in {j \in 1..Len(items) :
              /\ HasKey(items[j], "code")
              /\ \E e \in 1..(j - 1) :
                   HasKey(items[e], "code") /\ items[e].code = items[j].code}}

\* a rule that names a nutrient or a symptom no record of the document has
ReferenceViolations(doc) ==
  LET items == Items(doc, "rules") IN
  {Violation(Err("unknown_nutrient", "rules", i - 1, items[i].nutrient),
             Rank(3, i, 5)) :
     i \in {j \in 1..Len(items) :
              /\ HasKey(items[j], "nutrient")
              /\ ~\E e \in 1..Len(Items(doc, "nutrients")) :
                    /\ HasKey(Items(doc, "nutrients")[e], "code")
                    /\ Items(doc, "nutrients")[e].code = items[j].nutrient}}
  \cup
  {Violation(Err("unknown_symptom", "rules", i - 1, items[i].symptom),
             Rank(3, i, 6)) :
     i \in {j \in 1..Len(items) :
              /\ HasKey(items[j], "symptom")
              /\ ~\E e \in 1..Len(Items(doc, "symptoms")) :
                    /\ HasKey(Items(doc, "symptoms")[e], "code")
                    /\ Items(doc, "symptoms")[e].code = items[j].symptom}}

\* a rule whose confidence is no number, or a number outside [0, 1]
ConfidenceViolations(doc) ==
  LET items == Items(doc, "rules") IN
  {Violation(Err("cf_invalid", "rules", i - 1, "cf"), Rank(3, i, 7)) :
     i \in {j \in 1..Len(items) :
              HasKey(items[j], "cf") /\ items[j].cf.t = "bad"}}
  \cup
  {Violation(Err("cf_out_of_range", "rules", i - 1, "cf"), Rank(3, i, 7)) :
     i \in {j \in 1..Len(items) :
              /\ HasKey(items[j], "cf") /\ items[j].cf.t # "bad"
              /\ \/ items[j].cf.n < 0
                 \/ items[j].cf.n > items[j].cf.d}}

Violations(doc) ==
  ContainerViolations(doc)
  \cup ShapeViolations(doc, "symptoms", 1, <<"code", "name", "category">>)
  \cup DuplicateViolations(doc, "symptoms", 1)
  \cup ShapeViolations(doc, "nutrients", 2, <<"code", "name", "solusi">>)
  \cup DuplicateViolations(doc, "nutrients", 2)
  \cup ShapeViolations(doc, "rules", 3, <<"nutrient", "symptom", "cf">>)
  \cup ReferenceViolations(doc)
  \cup ConfidenceViolations(doc)

(***************************************************************************)
(* C8.  The catalog invariants of a loaded knowledge base.                 *)
(***************************************************************************)
Distinct(items) ==
  \A i, j \in 1..Len(items) : items[i].code = items[j].code => i = j

CatalogInvariants(kb) ==
  /\ Distinct(Items(kb, "symptoms"))
  /\ Distinct(Items(kb, "nutrients"))
  /\ \A i \in 1..Len(Items(kb, "rules")) :
       LET rule == Items(kb, "rules")[i] IN
       /\ \E e \in 1..Len(Items(kb, "nutrients")) :
            Items(kb, "nutrients")[e].code = rule.nutrient
       /\ \E e \in 1..Len(Items(kb, "symptoms")) :
            Items(kb, "symptoms")[e].code = rule.symptom
       /\ rule.cf.t # "bad"
       /\ 0 <= rule.cf.n /\ rule.cf.n <= rule.cf.d

\* a document that has its three lists of complete records: what is left to
\* go wrong is a catalog invariant
WellShaped(doc) ==
  /\ ContainerViolations(doc) = {}
  /\ ShapeViolations(doc, "symptoms", 1, <<"code", "name", "category">>) = {}
  /\ ShapeViolations(doc, "nutrients", 2, <<"code", "name", "solusi">>) = {}
  /\ ShapeViolations(doc, "rules", 3, <<"nutrient", "symptom", "cf">>) = {}

\* C8: every knowledge base that load_knowledge_base returns or stores in
\* the cache satisfies the catalog invariants (symptom codes pairwise
\* distinct, nutrient codes pairwise distinct, every rule's nutrient and
\* symptom code refer to an existing record, every rule's confidence in
\* [0, 1]); a source that violates one of them is rejected and is never
\* returned or cached.
C8_CatalogInvariants ==
  /\ (IsLoad /\ call.ok) => CatalogInvariants(call.kb)
  /\ kb_cache # None => CatalogInvariants(kb_cache)
  /\ (ReadsFile /\ WellShaped(kb_source.doc)
        /\ ~CatalogInvariants(kb_source.doc)) =>
       /\ ~call.ok
       /\ call.exc.type # "none"
       /\ kb_cache # kb_source.doc

\* a file that breaks a catalog invariant is rejected by a load that
\* bypasses the cache, while the cache keeps the catalog loaded before
C8_CatalogInvariants_Witness ==
  /\ ReadsFile
  /\ WellShaped(kb_source.doc)
  /\ ~CatalogInvariants(kb_source.doc)
  /\ ~call.ok
  /\ kb_cache # None

(***************************************************************************)
(* C9.  The kind of the error of a load.                                   *)
(***************************************************************************)
\* C9: when the source is readable and parses but violates a structural
\* invariant, load_knowledge_base fails with KnowledgeBaseValidationError,
\* the subtype that tells the failure apart from the KnowledgeBaseError of
\* a missing or unparsable source.
C9_ValidationSubtype ==
  (ReadsFile /\ Violations(kb_source.doc) # {}) =>
    /\ ~call.ok
    /\ call.exc.type = "KnowledgeBaseValidationError"

(***************************************************************************)
(* C10.  The order of the checks.                                          *)
(***************************************************************************)
\* the phase of an error in the order of the specification
Phase(err) ==
  IF err.check \in {"missing_container", "not_list"} THEN 1
  ELSE IF err.section \in {"symptoms", "nutrients"}
          /\ err.check \in {"not_dict", "missing_key"} THEN 2
  ELSE IF err.section = "symptoms" /\ err.check = "duplicate" THEN 3
  ELSE IF err.section = "nutrients" /\ err.check = "duplicate" THEN 4
  ELSE IF err.check \in {"not_dict", "missing_key", "unknown_nutrient",
                         "unknown_symptom"} THEN 5
  ELSE IF err.check \in {"cf_invalid", "cf_out_of_range"} THEN 6
  ELSE 0

\* the violation the validation meets first
FirstViolation(doc) ==
  IF Violations(doc) = {} THEN NoErr
  ELSE (CHOOSE v \in Violations(doc) :
          \A w \in Violations(doc) : v.rank <= w.rank).err

\* C10, as stated: the error raised is one of the first phase that fails,
\* the phases being: containers; fields of the symptom and nutrient records;
\* duplicate symptom codes; duplicate nutrient codes; fields and references
\* of the rules; confidences of the rules.
C10_CheckOrder_AsStated ==
  (ReadsFile /\ Violations(kb_source.doc) # {}) =>
    \A v \in Violations(kb_source.doc) :
      Phase(call.exc.cause) <= Phase(v.err)

\* C10: when a knowledge base has several violations at once, the error
\* raised is the one of the first failing check in the order in which the
\* validation runs: for symptoms, nutrients, rules in turn, the container is
\* present, then is a list; for each symptom record in index order, it is a
\* dict, it has code, name, category, its code is that of no earlier
\* symptom; for each nutrient record in index order the same with code,
\* name, solusi; for each rule in index order, it is a dict, it has
\* nutrient, symptom, cf, its nutrient code resolves, its symptom code
\* resolves, its confidence is a number in [0, 1] (the error naming the
\* index of the rule).
C10_CheckOrder ==
  ReadsFile =>
    /\ call.exc.cause = FirstViolation(kb_source.doc)
    /\ call.ok <=> Violations(kb_source.doc) = {}

\* a duplicate symptom code is reported although a record misses a field,
\* or a confidence out of range although a later rule misses a field
C10_CheckOrder_Witness ==
  /\ ReadsFile
  /\ Cardinality(Violations(kb_source.doc)) >= 2
  /\ \E v \in Violations(kb_source.doc) :
       Phase(v.err) < Phase(call.exc.cause)
  /\ call.exc.cause.check \in {"duplicate", "cf_out_of_range"}

(***************************************************************************)
(* C11.  No inference from an invalid knowledge base.                      *)
(***************************************************************************)
\* the file is missing, is not JSON, or holds a document with a violation
SourceInvalid(source) ==
  source.t \in {"missing", "garbage"} \/ Violations(source.doc) # {}

\* C11: while the source is invalid or unreadable and no valid snapshot is
\* cached, every inference call (calculate_cf or calculate_cf_with_details,
\* with any input including the empty mapping, with validate_input true or
\* false) ends in an error, and none returns a CF mapping.
C11_NoInferenceFromInvalid ==
  (IsCalc /\ SourceInvalid(kb_source) /\ kb_cache = None) =>
    /\ ~call.ok
    /\ call.exc.type \in {"KnowledgeBaseError", "InferenceError"}
    /\ call.nutrient_cfs = <<>>

\* the empty mapping, not validated, on a document with a violation
C11_NoInferenceFromInvalid_Witness ==
  /\ IsCalc /\ SourceInvalid(kb_source) /\ kb_cache = None
  /\ kb_source.t = "json"
  /\ selected_symptoms = EmptyObs /\ ~validate_input
  /\ call.exc.type = "KnowledgeBaseError"

(***************************************************************************)
(* C13.  Reload.                                                           *)
(***************************************************************************)
\* what load_knowledge_base() (a cached read: get_rules, get_nutrients and
\* get_symptoms read through it) returns in the current state
CachedRead == load_knowledge_base(kb_source, kb_cache, TRUE)

\* C13: a reload re-validates and installs the new snapshot: after
\* clear_cache() followed by load_knowledge_base(), and likewise after a
\* successful load_knowledge_base(use_cache=False), the source has been
\* read and validated again, and the cached reads that follow return the
\* reloaded snapshot, not the one cached before the reload.
C13_ReloadInstalls ==
  (ReadsFile /\ call.ok) =>
    /\ call.kb = kb_source.doc
    /\ Violations(call.kb) = {}
    /\ CachedRead.ok /\ CachedRead.kb = call.kb

(***************************************************************************)
(* C14.  Unknown symptom codes.                                            *)
(***************************************************************************)
\* the explanation of one nutrient: its contribution list, its combination
\* steps and its final CF (the early return for an empty observation names
\* the step list 'steps', the loop 'combination_steps')
Explanation(detail) ==
  [rules_used |-> detail.rules_used,
   steps |-> IF "steps" \in DOMAIN detail THEN detail.steps
             ELSE detail.combination_steps,
   cf_final |-> detail.cf_final]

Explanations(details) ==
  [i \in 1..Len(details) |->
     [code |-> details[i].code, explanation |-> Explanation(details[i].detail)]]

\* the call returned what r is: the same CF mapping and explanations, or
\* both ended in an error
SameResult(r) ==
  /\ r.ok = call.ok
  /\ r.nutrient_cfs = call.nutrient_cfs
  /\ Explanations(r.details) = Explanations(call.details)

\* obs without the entries of the codes in S
Remove(obs, S) == [c \in DOMAIN obs \ S |-> obs[c]]

UnknownCodes(obs, source) == DOMAIN obs \ SymptomCodes(source.doc)

\* C14: adding an entry with a symptom code that is not in the knowledge
\* base to an observation changes nothing in the result: for every
\* observation obs, unknown code u and value v,
\* calculate_cf_with_details(obs plus {u: v}) returns the same CF mapping
\* and the same explanation for every nutrient as
\* calculate_cf_with_details(obs).
C14_UnknownCodeIgnored ==
  IsDetails =>
    \A u \in UnknownCodes(selected_symptoms, kb_source) :
      SameResult(calculate_cf_with_details(Remove(selected_symptoms, {u}),
                                           validate_input, kb_source, kb_cache))

\* an unknown code next to a symptom that makes a rule fire
C14_UnknownCodeIgnored_Witness ==
  /\ IsDetails /\ call.ok /\ kb_source = FileJson(KB_A)
  /\ DOMAIN selected_symptoms = {"G1", "G99"}
  /\ selected_symptoms["G99"] = NumV(1, 1)
  /\ \E i \in 1..Len(call.nutrient_cfs) : QLt(Zero, call.nutrient_cfs[i].cf)

(***************************************************************************)
(* C15, C16.  The combination as a function of its list.                   *)
(***************************************************************************)
IsCombine == call.op = "_combine_multiple_cf"
In01(x) == QLe(Zero, x) /\ QLe(x, One)

\* the list without its last element
Front(c) == SubSeq(c, 1, Len(c) - 1)

C16_OrderInsensitive ==
  IsCombine =>
    \A p \in Orderings(call.cf_list) : _combine_multiple_cf(p).cf = call.cf

\* three different contributions strictly between 0 and 1
C16_OrderInsensitive_Witness ==
  /\ IsCombine /\ Len(call.cf_list) = 3
  /\ Cardinality({call.cf_list[i] : i \in 1..3}) = 3
  /\ \A i \in 1..3 : QLt(Zero, call.cf_list[i]) /\ QLt(call.cf_list[i], One)

(***************************************************************************)
(* C17.  Which rules contribute.                                           *)
(***************************************************************************)
\* the symptom is in the observation with a confidence above 0
Positive(obs, symptom) ==
  /\ symptom \in DOMAIN obs
  /\ obs[symptom].t # "bad"
  /\ obs[symptom].n > 0

\* how many rules of the catalog name nutrient n and the symptom
RuleCount(kb, n, symptom) ==
  Cardinality({j \in 1..Len(kb.rules.items) :
                 /\ kb.rules.items[j].nutrient = n
                 /\ kb.rules.items[j].symptom = symptom})

\* how many entries of the contribution list name the symptom
RecordCount(rules_used, symptom) ==
  Cardinality({j \in 1..Len(rules_used) :
                 rules_used[j].symptom_code = symptom})

\* the entries of obs whose confidence is exactly 0
ZeroEntries(obs) == {c \in DOMAIN obs : obs[c].t # "bad" /\ obs[c].n = 0}

TraceConsistent(cf_list, steps, cf_final) ==
  LET n == Len(cf_list) IN
  /\ Len(steps) = IF n = 0 THEN 0 ELSE n - 1
  /\ n = 0 => cf_final = Zero
  /\ n = 1 => cf_final = cf_list[1]
  /\ n >= 2 =>
       /\ steps[1].cf_old = cf_list[1]
       /\ \A i \in 1..(n - 1) : steps[i].cf_new = cf_list[i + 1]
       /\ \A i \in 2..(n - 1) : steps[i].cf_old = steps[i - 1].result
       /\ cf_final = steps[n - 1].result

\* C18: the combination trace is consistent with the contributions: for n
\* collected contributions the step list has max(0, n - 1) entries (empty
\* with final CF 0 for n = 0, empty with the final CF equal to the sole
\* contribution for n = 1); for n >= 2 the first step's old value is the
\* first contribution, each step's new value is the next contribution in
\* declared order, each step's old value is the previous step's result, and
\* the reported final CF is the last step's result.  All values are read as
\* the call reports them, rounded to 4 decimals.
C18_TraceConsistent ==
  (IsDetails /\ call.ok) =>
    \A i \in 1..Len(call.details) :
      /\ call.nutrient_cfs[i].cf = call.details[i].detail.cf_final
      /\ IF "cf_list" \in DOMAIN call.details[i].detail
           THEN /\ TraceConsistent(call.details[i].detail.cf_list,
                                   call.details[i].detail.combination_steps,
                                   call.details[i].detail.cf_final)
                /\ call.details[i].detail.cf_list
                     = [j \in 1..Len(call.details[i].detail.rules_used) |->
                          call.details[i].detail.rules_used[j].cf_rule]
           ELSE /\ call.details[i].detail.rules_used = <<>>
                /\ TraceConsistent(<<>>, call.details[i].detail.steps,
                                   call.details[i].detail.cf_final)

\* one call with a nutrient of three contributions, one of one and one of
\* none
C18_TraceConsistent_Witness ==
  /\ IsDetails /\ call.ok
  /\ \E i \in 1..Len(call.details) :
       /\ Len(call.details[i].detail.rules_used) = 3
       /\ Len(call.details[i].detail.combination_steps) = 2
       /\ QLt(call.details[i].detail.combination_steps[1].result,
              call.details[i].detail.combination_steps[2].result)
  /\ \E i \in 1..Len(call.details) :
       /\ Len(call.details[i].detail.rules_used) = 1
       /\ QLt(Zero, call.details[i].detail.cf_final)

(***************************************************************************)
(* C12.  The cache under concurrent loads and clears.                      *)
(***************************************************************************)
\* the cache holds nothing or the complete, validated content of the file
CacheSound ==
  \/ kb_cache = None
  \/ /\ kb_source.t = "json"
     /\ kb_cache = kb_source.doc
     /\ _validate_knowledge_base_structure(kb_cache) = NoErr

LoadReturned(t) ==
  /\ threads[t].pc = "done"
  /\ threads[t].op = "load"
  /\ threads[t].ret.ok

\* C12: under any interleaving of concurrent load_knowledge_base and
\* clear_cache calls, several concurrent first loads included, the cache
\* holds nothing or one complete, validated knowledge base, and with the
\* source unchanged every load that returns hands its caller the same
\* snapshot, the validated content of the file.
C12_CacheSnapshot ==
  /\ CacheSound
  /\ \A t \in Threads :
       LoadReturned(t) =>
         /\ kb_source.t = "json"
         /\ threads[t].ret.kb = kb_source.doc

(***************************************************************************)
(* C20.  One inference, one snapshot.                                      *)
(***************************************************************************)
\* the knowledge bases the loads of the thread's inference have returned
SnapshotsRead(t) ==
  {threads[t].codes_kb, threads[t].rules_kb, threads[t].nutrients_kb,
   threads[t].symptoms_kb} \ {None}

\* C20: the symptom codes that validate the input, the rules, the nutrients
\* and the symptom records read during one calculate_cf_with_details call
\* all come from the same snapshot of the knowledge base, also when
\* clear_cache and a load of a changed file interleave with the call.
C20_OneSnapshot ==
  \A t \in Threads :
    threads[t].op = "calc" => Cardinality(SnapshotsRead(t)) <= 1

(***************************************************************************)
(* C19.  A fired rule whose symptom has no record.                         *)
(***************************************************************************)
\* the loop of the thread's inference has evaluated a rule that fires and
\* whose symptom is not among the symptom records it read
FiredWithoutRecord(t) ==
  /\ threads[t].pc = "done"
  /\ threads[t].op = "calc"
  /\ threads[t].symptoms_kb # None
  /\ \E i \in 1..Len(threads[t].nutrients_kb.nutrients.items) :
       LET fired == FiredRules(
                      NutrientRules(threads[t].rules_kb.rules.items,
                        threads[t].nutrients_kb.nutrients.items[i].code),
                      threads[t].v.validated)
       IN \E j \in 1..Len(fired) :
            fired[j].symptom \notin SymptomCodes(threads[t].symptoms_kb)

\* C19: when calculate_cf_with_details evaluates a rule that fires and the
\* rule's symptom code has no record among the symptoms of the knowledge
\* base, the call fails with an error: it neither skips the rule nor
\* returns a result with placeholder data.
C19_MissingRecordIsFatal ==
  \A t \in Threads : FiredWithoutRecord(t) => ~threads[t].ret.ok

(***************************************************************************)
(* C23.  A load that fails.                                                *)
(***************************************************************************)
\* C23: a load_knowledge_base call that fails (missing file, unparsable
\* file or validation failure), with use_cache true or false, leaves the
\* cache as it was before the call: a snapshot cached before is still what
\* the cached reads return afterwards, and an empty cache stays empty.
C23_FailedLoadKeepsCache ==
  [][(call'.op = "load" /\ ~call'.ok) =>
       /\ kb_cache' = kb_cache
       /\ kb_cache # None =>
            /\ load_knowledge_base(kb_source', kb_cache', TRUE).ok
            /\ load_knowledge_base(kb_source', kb_cache', TRUE).kb = kb_cache
       /\ kb_cache = None =>
            ~load_knowledge_base(kb_source', kb_cache', TRUE).ok]_vars

\* an uncached load has failed on a file with a violation while a snapshot
\* was cached
C23_FailedLoadKeepsCache_Witness ==
  /\ IsLoad /\ ~call.ok /\ ~call.use_cache
  /\ kb_source.t = "json" /\ Violations(kb_source.doc) # {}
  /\ kb_cache # None

(***************************************************************************)
(* C21.  The shape of the explanation.                                     *)
(***************************************************************************)
\* the explanation has one entry per nutrient of the knowledge base
EveryNutrientExplained ==
  (IsDetails /\ call.ok) =>
    /\ Keys(call.details) = NutrientCodes(kb_source.doc)
    /\ Keys(call.nutrient_cfs) = NutrientCodes(kb_source.doc)

\* the field names of an entry computed by the loop over the rules, which
\* is the entry an input with evidence gets
EvidenceFields == DOMAIN NutrientOfCfList(Nut("D1"), <<>>, <<>>).detail

\* C21: for every input, the empty mapping and the inputs that normalize
\* to empty included, the explanation returned by
\* calculate_cf_with_details has an entry for every nutrient code, and each
\* entry carries the rule-contribution list and the combination-step list
\* under the field names of an entry for an input with evidence
\* (rules_used and combination_steps).
C21_ExplanationShape ==
  /\ EveryNutrientExplained
  /\ (IsDetails /\ call.ok) =>
       \A i \in 1..Len(call.details) :
         /\ {"rules_used", "combination_steps"} \subseteq EvidenceFields
         /\ {"rules_used", "combination_steps"}
              \subseteq DOMAIN call.details[i].detail

(***************************************************************************)
(* C22.  Out-of-range confidences in the consultation.                     *)
(***************************************************************************)
IsConsult == call.op = "consult_result"

\* the submitted fields of known symptoms whose value is a number outside
\* [0, 1]
SubmittedOutOfRange(form, kb) ==
  {code \in DOMAIN form \cap SymptomCodes(kb) :
     /\ ~float_raises(form[code])
     /\ ~(QLe(Zero, float(form[code])) /\ QLe(float(form[code]), One))}

\* the CF mapping a consultation shows for the CF mapping of an inference
Shown(nutrient_cfs) == IF AllZero(nutrient_cfs) THEN <<>> ELSE nutrient_cfs

\* the inference on the form as submitted, which clamps
EngineOnForm ==
  calculate_cf_with_details(call.form, TRUE, kb_source, kb_cache)

\* C22: in the consultation (consult_result: _parse_symptom_form_data,
\* then calculate_cf_with_details) a submitted confidence outside [0, 1]
\* for a known symptom, such as 1.5, is clamped into the range and still
\* used in the diagnosis: it reaches the inference with its clamped value,
\* and the diagnosis shown is the one the inference computes from the
\* submitted form.
C22_OutOfRangeClamped ==
  (IsConsult /\ call.status = 200 /\ ~SourceInvalid(kb_source)) =>
    /\ \A code \in SubmittedOutOfRange(call.form, kb_source.doc) :
         /\ code \in DOMAIN call.symptoms_selected
         /\ float(call.symptoms_selected[code])
              = Clamp01(float(call.form[code]))
    /\ call.cf_results = Shown(EngineOnForm.nutrient_cfs)
====
